---------------------------- MODULE Spec2Model ----------------------------
(***************************************************************************)
(* Site Safety Checker: URL normalisation, the signal evaluators and the   *)
(* aggregator checkSiteSafety of src/src/lib/auth-storage.ts.              *)
(*                                                                         *)
(* A JavaScript string is a sequence of one-character strings.  The model  *)
(* alphabet is ASCII: lower- and upper-case letters, digits, ".", "-",     *)
(* "/", ":", "?", "=", "&" and the white space characters " " and "\t".    *)
(***************************************************************************)
EXTENDS Integers, Sequences, FiniteSets, TLC

(***************************************************************************)
(* Bounds of the model.                                                    *)
(***************************************************************************)
\* longest body appended to a scheme prefix in the normalisation inputs
MaxNormLen == 3
\* Math.random() is drawn from {0/RandomDen, ..., (RandomDen-1)/RandomDen}
RandomDen == 10
\* most checkSiteSafety invocations the component starts in one run
MaxCalls == 2
\* most records the activity log holds
MaxLogs == 3
\* the last second the clock reaches
MaxClock == 2
\* most sessions that become active in one run
MaxSessions == 2

(***************************************************************************)
(* String helpers (String.prototype methods used by the source).           *)
(***************************************************************************)
\* a const binding: x is evaluated once and F applied to its value
With(x, F(_)) == CHOOSE r \in {F(v) : v \in {x}} : TRUE

StartsWith(s, p) == Len(s) >= Len(p) /\ SubSeq(s, 1, Len(p)) = p

EndsWith(s, p) == Len(s) >= Len(p) /\ SubSeq(s, Len(s) - Len(p) + 1, Len(s)) = p

Includes(s, p) == \E i \in 1..(Len(s) - Len(p) + 1) : SubSeq(s, i, i + Len(p) - 1) = p

\* index of the first element of s that is in the set cs, or Len(s) + 1
IndexOfAny(s, cs, i) ==
    With({k \in i..Len(s) : s[k] \in cs},
         LAMBDA hits : IF hits = {} THEN Len(s) + 1 ELSE CHOOSE k \in hits : \A j \in hits : k <= j)

CountChar(s, c) == Cardinality({i \in 1..Len(s) : s[i] = c})

Digits == {"0", "1", "2", "3", "4", "5", "6", "7", "8", "9"}

WhiteSpace == {" ", "\t"}

UpperToLower ==
    "A" :> "a" @@ "B" :> "b" @@ "C" :> "c" @@ "D" :> "d" @@ "E" :> "e" @@
    "F" :> "f" @@ "G" :> "g" @@ "H" :> "h" @@ "I" :> "i" @@ "J" :> "j" @@
    "K" :> "k" @@ "L" :> "l" @@ "M" :> "m" @@ "N" :> "n" @@ "O" :> "o" @@
    "P" :> "p" @@ "Q" :> "q" @@ "R" :> "r" @@ "S" :> "s" @@ "T" :> "t" @@
    "U" :> "u" @@ "V" :> "v" @@ "W" :> "w" @@ "X" :> "x" @@ "Y" :> "y" @@
    "Z" :> "z"

\* String.prototype.toLowerCase
ToLowerCase(s) ==
    SubSeq([i \in 1..Len(s) |-> IF s[i] \in DOMAIN UpperToLower THEN UpperToLower[s[i]] ELSE s[i]],
           1, Len(s))

\* String.prototype.trim
RECURSIVE TrimStart(_)
TrimStart(s) ==
    IF s # <<>> /\ Head(s) \in WhiteSpace THEN TrimStart(Tail(s)) ELSE s

RECURSIVE TrimEnd(_)
TrimEnd(s) ==
    IF s # <<>> /\ s[Len(s)] \in WhiteSpace THEN TrimEnd(SubSeq(s, 1, Len(s) - 1)) ELSE s

Trim(s) == TrimEnd(TrimStart(s))

\* url.replace(/\s/g, '')
RemoveWhitespace(s) == SelectSeq(s, LAMBDA c : c \notin WhiteSpace)

\* StripTrailingSlashes removing one slash only: url.replace(/\/$/, '')
StripOneTrailingSlash(s) ==
    IF s # <<>> /\ s[Len(s)] = "/" THEN SubSeq(s, 1, Len(s) - 1) ELSE s

\* url.replace(/\/+$/, ''): the whole trailing run of slashes is removed
RECURSIVE StripTrailingSlashes(_)
StripTrailingSlashes(s) ==
    IF s # <<>> /\ s[Len(s)] = "/" THEN StripTrailingSlashes(SubSeq(s, 1, Len(s) - 1)) ELSE s

HttpPrefix == <<"h","t","t","p",":","/","/">>

HttpsPrefix == <<"h","t","t","p","s",":","/","/">>

\* 'https://' + url when the lower-cased input has neither scheme prefix
AddProtocol(s) ==
    IF ~StartsWith(s, HttpPrefix) /\ ~StartsWith(s, HttpsPrefix) THEN HttpsPrefix \o s ELSE s

normalizeUrl(input) ==
    With(ToLowerCase(Trim(input)), LAMBDA trimmed :
    With(RemoveWhitespace(trimmed), LAMBDA stripped :
    With(AddProtocol(stripped), LAMBDA prefixed :
    StripTrailingSlashes(prefixed))))

(***************************************************************************)
(* new URL(s) of the WHATWG URL standard, for the model alphabet: the      *)
(* scheme, the authority (host and optional port), the IPv4 host parser    *)
(* and the query.  The alphabet has no "@", "#", "[", "%" or backslash and *)
(* no non-ASCII character; "xn--" labels of the inputs are valid punycode. *)
(***************************************************************************)
\* s.split(sep) for a one-character separator
RECURSIVE Split(_, _)
Split(s, sep) ==
    With(IndexOfAny(s, {sep}, 1), LAMBDA i :
        IF i > Len(s) THEN <<s>>
        ELSE <<SubSeq(s, 1, i - 1)>> \o With(SubSeq(s, i + 1, Len(s)), LAMBDA t : Split(t, sep)))

RECURSIVE SkipSlashes(_)
SkipSlashes(s) == IF s # <<>> /\ Head(s) = "/" THEN SkipSlashes(Tail(s)) ELSE s

DigitVal ==
    "0" :> 0 @@ "1" :> 1 @@ "2" :> 2 @@ "3" :> 3 @@ "4" :> 4 @@ "5" :> 5 @@
    "6" :> 6 @@ "7" :> 7 @@ "8" :> 8 @@ "9" :> 9 @@ "a" :> 10 @@ "b" :> 11 @@
    "c" :> 12 @@ "d" :> 13 @@ "e" :> 14 @@ "f" :> 15

AllDigits(s) == \A i \in 1..Len(s) : s[i] \in Digits

\* value of the digit string s in radix r, or -1 when a character is no radix-r digit
RECURSIVE RadixValue(_, _, _)
RadixValue(s, r, acc) ==
    IF s = <<>> THEN acc
    ELSE IF Head(s) \in DOMAIN DigitVal /\ DigitVal[Head(s)] < r
         THEN RadixValue(Tail(s), r, acc * r + DigitVal[Head(s)])
         ELSE -1

\* the IPv4 number parser: decimal, octal with a leading 0, hexadecimal with 0x; -1 on failure
ParseIPv4Number(part) ==
    IF part = <<>> THEN -1
    ELSE IF Len(part) >= 2 /\ SubSeq(part, 1, 2) = <<"0","x">> THEN RadixValue(SubSeq(part, 3, Len(part)), 16, 0)
    ELSE IF Len(part) >= 2 /\ Head(part) = "0" THEN RadixValue(Tail(part), 8, 0)
    ELSE RadixValue(part, 10, 0)

\* the labels of a host without one trailing empty label
HostParts(host) ==
    With(Split(host, "."), LAMBDA parts :
        IF Len(parts) > 1 /\ parts[Len(parts)] = <<>> THEN SubSeq(parts, 1, Len(parts) - 1) ELSE parts)

\* the "ends in a number" checker
EndsInNumber(host) ==
    With(HostParts(host), LAMBDA parts :
    With(parts[Len(parts)], LAMBDA last :
        /\ last # <<>>
        /\ \/ AllDigits(last)
           \/ /\ Len(last) >= 2
              /\ SubSeq(last, 1, 2) = <<"0","x">>
              /\ RadixValue(SubSeq(last, 3, Len(last)), 16, 0) >= 0))

RECURSIVE Pow256(_)
Pow256(n) == IF n = 0 THEN 1 ELSE 256 * Pow256(n - 1)

RECURSIVE ToDecimal(_)
ToDecimal(n) ==
    LET d == CHOOSE c \in Digits : DigitVal[c] = n % 10
    IN  IF n < 10 THEN <<d>> ELSE ToDecimal(n \div 10) \o <<d>>

\* the IPv4 parser followed by the IPv4 serializer: [ok, hostname].  The last number
\* fills the bytes the numbers before it leave (a single number stays below 2^31 here).
ParseIPv4(host) ==
    With(HostParts(host), LAMBDA parts :
    With(Len(parts), LAMBDA n :
    With(SubSeq([i \in 1..n |-> ParseIPv4Number(parts[i])], 1, n), LAMBDA nums :
        IF \/ n > 4
           \/ \E i \in 1..n : nums[i] < 0
           \/ \E i \in 1..(n - 1) : nums[i] > 255
           \/ n > 1 /\ nums[n] >= Pow256(5 - n)
        THEN [ok |-> FALSE, hostname |-> <<>>]
        ELSE With(SubSeq([i \in 1..4 |-> IF i < n THEN nums[i]
                                         ELSE (nums[n] \div Pow256(4 - i)) % 256], 1, 4),
                  LAMBDA byte :
                      [ok |-> TRUE,
                       hostname |-> ToDecimal(byte[1]) \o <<".">> \o ToDecimal(byte[2]) \o <<".">> \o
                                    ToDecimal(byte[3]) \o <<".">> \o ToDecimal(byte[4])]))))

\* the host parser for a special scheme: [ok, hostname]
ParseHost(host) ==
    IF host = <<>> THEN [ok |-> FALSE, hostname |-> <<>>]
    ELSE IF EndsInNumber(host) THEN ParseIPv4(host)
    ELSE [ok |-> TRUE, hostname |-> host]

\* the port state: digits only, at most 5 significant ones, value at most 65535
PortOk(port) ==
    /\ AllDigits(port)
    /\ Len(port) <= 5 \/ \A i \in 1..(Len(port) - 5) : port[i] = "0"
    /\ RadixValue(IF Len(port) > 5 THEN SubSeq(port, Len(port) - 4, Len(port)) ELSE port, 10, 0) <= 65535

ParseFailure == [ok |-> FALSE, protocol |-> <<>>, hostname |-> <<>>, search |-> <<>>]

\* new URL(s): [ok, protocol, hostname, search]; ok = FALSE stands for the TypeError
ParseUrl(s) ==
    With(IF StartsWith(s, <<"h","t","t","p","s",":">>) THEN <<"h","t","t","p","s",":">>
         ELSE IF StartsWith(s, <<"h","t","t","p",":">>) THEN <<"h","t","t","p",":">>
         ELSE <<>>, LAMBDA scheme :
    With(SkipSlashes(SubSeq(s, Len(scheme) + 1, Len(s))), LAMBDA rest :
    With(IndexOfAny(rest, {"/", "?"}, 1), LAMBDA authEnd :
    With(SubSeq(rest, 1, authEnd - 1), LAMBDA authority :
    With(IndexOfAny(authority, {":"}, 1), LAMBDA colon :
    With(ParseHost(SubSeq(authority, 1, colon - 1)), LAMBDA parsedHost :
    With(SubSeq(rest, authEnd, Len(rest)), LAMBDA tail :
        IF \/ scheme = <<>>
           \/ ~parsedHost.ok
           \/ ~PortOk(SubSeq(authority, colon + 1, Len(authority)))
        THEN ParseFailure
        ELSE [ok |-> TRUE, protocol |-> scheme, hostname |-> parsedHost.hostname,
              search |-> SubSeq(tail, IndexOfAny(tail, {"?"}, 1) + 1, Len(tail))])))))))

isValidUrl(input) ==
    With(normalizeUrl(input), LAMBDA normalized :
    With(ParseUrl(normalized), LAMBDA parsed :
        parsed.ok /\ parsed.protocol \in {<<"h","t","t","p",":">>, <<"h","t","t","p","s",":">>}))

extractDomain(rawUrl) ==
    With(normalizeUrl(rawUrl), LAMBDA normalized :
    With(ParseUrl(normalized), LAMBDA parsed :
        IF parsed.ok THEN parsed.hostname ELSE <<>>))

\* characters the application/x-www-form-urlencoded serializer leaves as they are
UrlencodedPlain ==
    Digits \cup DOMAIN UpperToLower \cup {UpperToLower[c] : c \in DOMAIN UpperToLower} \cup {"*", "-", ".", "_"}

\* length of the serialization of a name or a value: other bytes become %XX
UrlencodedLen(s) ==
    Cardinality({i \in 1..Len(s) : s[i] \in UrlencodedPlain}) +
    3 * Cardinality({i \in 1..Len(s) : s[i] \notin UrlencodedPlain})

\* parsed.searchParams.toString().length: name=value pairs joined by "&"
SearchParamsLength(search) ==
    LET PairLen(p) ==
            With(IndexOfAny(p, {"="}, 1), LAMBDA eq :
                UrlencodedLen(SubSeq(p, 1, eq - 1)) + 1 + UrlencodedLen(SubSeq(p, eq + 1, Len(p))))
    IN  With(SelectSeq(Split(search, "&"), LAMBDA p : p # <<>>), LAMBDA pieces :
            LET RECURSIVE Total(_)
                Total(i) == IF i > Len(pieces) THEN 0 ELSE PairLen(pieces[i]) + Total(i + 1)
            IN  IF pieces = <<>> THEN 0 ELSE Total(1) + Len(pieces) - 1)

(***************************************************************************)
(* Signals.  A Signal is [id, status, score, maxScore, explanation]; the   *)
(* explanation is the sequence of the reasons the source joins with ". ".  *)
(***************************************************************************)
\* null (a record, as every value it is compared with is one)
Null == [null |-> TRUE]

Min(a, b) == IF a < b THEN a ELSE b

Max(a, b) == IF a > b THEN a ELSE b

SUSPICIOUS_TLDS ==
    {<<".","t","k">>, <<".","m","l">>, <<".","g","a">>, <<".","c","f">>, <<".","g","q">>,
     <<".","x","y","z">>, <<".","t","o","p">>, <<".","w","o","r","k">>,
     <<".","c","l","i","c","k">>, <<".","l","i","n","k">>, <<".","z","i","p">>, <<".","m","o","v">>}

TRUSTED_TLDS == {<<".","g","o","v">>, <<".","e","d","u">>, <<".","m","i","l">>}

BRAND_PATTERNS ==
    {<<"p","a","y","p","a","l">>, <<"a","p","p","l","e">>, <<"g","o","o","g","l","e">>,
     <<"m","i","c","r","o","s","o","f","t">>, <<"a","m","a","z","o","n">>,
     <<"f","a","c","e","b","o","o","k">>, <<"n","e","t","f","l","i","x">>, <<"b","a","n","k">>,
     <<"s","e","c","u","r","e">>, <<"l","o","g","i","n">>, <<"a","c","c","o","u","n","t">>,
     <<"v","e","r","i","f","y">>, <<"u","p","d","a","t","e">>}

\* /^(\d{1,3}\.){3}\d{1,3}$/
ipPattern(host) ==
    With(Split(host, "."), LAMBDA parts :
        /\ Len(parts) = 4
        /\ \A i \in 1..4 : Len(parts[i]) \in 1..3 /\ AllDigits(parts[i]))

\* hasBrandPattern without the exemption of the brand's own domain
hasBrandPatternNoOfficial(host) == \E brand \in BRAND_PATTERNS : Includes(host, brand)

hasBrandPattern(host) ==
    \E brand \in BRAND_PATTERNS :
        LET brandInDomain == Includes(host, brand)
            isOfficialDomain == \/ host = brand \o <<".","c","o","m">>
                                \/ host = <<"w","w","w",".">> \o brand \o <<".","c","o","m">>
        IN  brandInDomain /\ ~isOfficialDomain

\* the issues of checkUrlPatterns in the order the source evaluates them: <<points, reason>>,
\* the trusted-TLD step being <<-5, "">> (it subtracts with a floor of 0 and pushes no reason)
UrlPatternSteps(rawUrl) ==
    With(normalizeUrl(rawUrl), LAMBDA normalized :
    With(extractDomain(rawUrl), LAMBDA host :
    With(ParseUrl(normalized), LAMBDA parsed :
        (IF ipPattern(host) THEN <<(<<5, "ip">>)>> ELSE <<>>) \o
        (IF \E tld \in SUSPICIOUS_TLDS : EndsWith(host, tld) THEN <<(<<4, "tld">>)>> ELSE <<>>) \o
        (IF \E tld \in TRUSTED_TLDS : EndsWith(host, tld) THEN <<(<<-5, "">>)>> ELSE <<>>) \o
        (IF Len(Split(host, ".")) - 2 > 3 THEN <<(<<3, "subdomains">>)>> ELSE <<>>) \o
        (IF Len(host) > 50 THEN <<(<<2, "length">>)>> ELSE <<>>) \o
        (IF CountChar(host, "-") > 2 THEN <<(<<3, "hyphens">>)>> ELSE <<>>) \o
        (IF hasBrandPattern(host) THEN <<(<<5, "brand">>)>> ELSE <<>>) \o
        (IF parsed.ok /\ SearchParamsLength(parsed.search) > 200 THEN <<(<<2, "query">>)>> ELSE <<>>))))

\* the running score after the steps: score += points, or Math.max(0, score - 5)
RECURSIVE AccumulateScore(_, _)
AccumulateScore(steps, score) ==
    IF steps = <<>> THEN score
    ELSE AccumulateScore(Tail(steps),
                         IF Head(steps)[1] < 0 THEN Max(0, score + Head(steps)[1])
                         ELSE score + Head(steps)[1])

\* checkUrlPatterns with the status boundary one too high (score <= 5 is still a warning)
checkUrlPatternsLateBad(rawUrl) ==
    With(UrlPatternSteps(rawUrl), LAMBDA steps :
    With(AccumulateScore(steps, 0), LAMBDA score :
    With(SelectSeq(steps, LAMBDA st : st[2] # ""), LAMBDA pushed :
    With(SubSeq([i \in 1..Len(pushed) |-> pushed[i][2]], 1, Len(pushed)), LAMBDA issues :
        [id |-> "url-patterns",
         status |-> IF score = 0 THEN "good" ELSE IF score <= 5 THEN "warning" ELSE "bad",
         score |-> Min(score, 20),
         maxScore |-> 20,
         explanation |-> IF Len(issues) > 0 THEN issues ELSE <<"normal">>]))))

checkUrlPatterns(rawUrl) ==
    With(UrlPatternSteps(rawUrl), LAMBDA steps :
    With(AccumulateScore(steps, 0), LAMBDA score :
    With(SelectSeq(steps, LAMBDA st : st[2] # ""), LAMBDA pushed :
    With(SubSeq([i \in 1..Len(pushed) |-> pushed[i][2]], 1, Len(pushed)), LAMBDA issues :
        [id |-> "url-patterns",
         status |-> IF score = 0 THEN "good" ELSE IF score < 5 THEN "warning" ELSE "bad",
         score |-> Min(score, 20),
         maxScore |-> 20,
         explanation |-> IF Len(issues) > 0 THEN issues ELSE <<"normal">>]))))

\* the lookalike characters of the table that are in the model alphabet; the others are
\* non-ASCII and a hostname returned by new URL is ASCII (such a host is an "xn--" one)
Lookalikes == {"0", "1"}

checkHomographAttack(rawUrl) ==
    With(extractDomain(rawUrl), LAMBDA host :
        IF Includes(host, <<"x","n","-","-">>)
        THEN [isHomograph |-> TRUE, explanation |-> "punycode"]
        ELSE IF \E i \in 1..Len(host) : host[i] \in Lookalikes
        THEN [isHomograph |-> TRUE, explanation |-> "lookalike"]
        ELSE [isHomograph |-> FALSE, explanation |-> "none"])

\* ApplyHomograph without the Math.min
ApplyHomographNoClamp(signal, homographCheck) ==
    IF homographCheck.isHomograph
    THEN [signal EXCEPT !.score = signal.score + 8,
                        !.status = "bad",
                        !.explanation = Append(@, homographCheck.explanation)]
    ELSE signal

\* ApplyHomograph without the assignment of the status
ApplyHomographKeepStatus(signal, homographCheck) ==
    IF homographCheck.isHomograph
    THEN [signal EXCEPT !.score = Min(signal.score + 8, 20),
                        !.explanation = Append(@, homographCheck.explanation)]
    ELSE signal

\* the in-place update of urlPatternsSignal in checkSiteSafety
ApplyHomograph(signal, homographCheck) ==
    IF homographCheck.isHomograph
    THEN [signal EXCEPT !.score = Min(signal.score + 8, 20),
                        !.status = "bad",
                        !.explanation = Append(@, homographCheck.explanation)]
    ELSE signal

\* checkSsl testing the string as typed instead of the normalized one
checkSslRaw(rawUrl) ==
    LET hasHttps == StartsWith(rawUrl, HttpsPrefix)
    IN  [id |-> "ssl",
         status |-> IF hasHttps THEN "good" ELSE "bad",
         score |-> IF hasHttps THEN 0 ELSE 10,
         maxScore |-> 10,
         explanation |-> IF hasHttps THEN <<"https">> ELSE <<"no-https">>]

checkSsl(rawUrl) ==
    LET hasHttps == With(normalizeUrl(rawUrl), LAMBDA normalized : StartsWith(normalized, HttpsPrefix))
    IN  [id |-> "ssl",
         status |-> IF hasHttps THEN "good" ELSE "bad",
         score |-> IF hasHttps THEN 0 ELSE 10,
         maxScore |-> 10,
         explanation |-> IF hasHttps THEN <<"https">> ELSE <<"no-https">>]

(***************************************************************************)
(* The lookups.  Each returns the settlement of its promise:               *)
(* [state |-> "fulfilled" or "rejected", value |-> what it resolves to].   *)
(* A draw of Math.random() is r / RandomDen with r in 0..RandomDen-1.      *)
(***************************************************************************)
Fulfilled(v) == [state |-> "fulfilled", value |-> v]

Rejected == [state |-> "rejected", value |-> Null]

Pending == [state |-> "pending", value |-> Null]

safeBrowsingLookup(rawUrl) ==
    With(extractDomain(rawUrl), LAMBDA host :
    With(\/ Includes(host, <<"p","h","i","s","h","i","n","g">>)
         \/ Includes(host, <<"m","a","l","w","a","r","e">>), LAMBDA isThreat :
        Fulfilled([id |-> "safe-browsing",
                   status |-> IF isThreat THEN "bad" ELSE "good",
                   score |-> IF isThreat THEN 25 ELSE 0,
                   maxScore |-> 25,
                   explanation |-> IF isThreat THEN <<"flagged">> ELSE <<"not-found">>])))

\* mockAges, in years
mockAges ==
    <<"g","o","o","g","l","e",".","c","o","m">> :> 26 @@
    <<"a","m","a","z","o","n",".","c","o","m">> :> 28 @@
    <<"m","i","c","r","o","s","o","f","t",".","c","o","m">> :> 32 @@
    <<"f","a","c","e","b","o","o","k",".","c","o","m">> :> 20

\* the property names mockAges inherits from Object.prototype that a host (lower case, over
\* the model alphabet) can spell: mockAges[domain] is then a function, not a number and not
\* undefined, and ageYears.toFixed(1) throws a TypeError
InheritedKeys == {<<"c","o","n","s","t","r","u","c","t","o","r">>}

\* ageYears as a number of 1/RandomDen years (for a host that is not an inherited key)
ResolveAge(host, r) ==
    IF host \in DOMAIN mockAges THEN mockAges[host] * RandomDen
    ELSE IF \/ Includes(host, <<"s","e","c","u","r","e">>)
            \/ Includes(host, <<"l","o","g","i","n">>)
            \/ Includes(host, <<"v","e","r","i","f","y">>)
         THEN r * 2
         ELSE r * 10 + RandomDen

whoisLookup(host, r) ==
    IF host \in InheritedKeys THEN Rejected ELSE
    LET ageYears == ResolveAge(host, r)
        score == IF 2 * ageYears < RandomDen THEN 15
                 ELSE IF ageYears < RandomDen THEN 10
                 ELSE IF ageYears < 2 * RandomDen THEN 5
                 ELSE 0
        status == IF 2 * ageYears < RandomDen THEN "bad"
                  ELSE IF ageYears < 2 * RandomDen THEN "warning"
                  ELSE "good"
    IN  Fulfilled([signal |-> [id |-> "domain-age",
                               status |-> status,
                               score |-> score,
                               maxScore |-> 15,
                               explanation |-> <<"registered">>],
                   ageYears |-> ageYears])

\* Math.floor(Math.random() * 30) + 20, Math.floor(Math.random() * 10) + 2, or 0
Detections(host, r) ==
    IF \/ Includes(host, <<"m","a","l","w","a","r","e">>)
       \/ Includes(host, <<"p","h","i","s","h","i","n","g">>)
    THEN ((r * 30) \div RandomDen) + 20
    ELSE IF Includes(host, <<"s","u","s","p","i","c","i","o","u","s">>)
    THEN ((r * 10) \div RandomDen) + 2
    ELSE 0

blacklistLookup(rawUrl, r) ==
    With(With(extractDomain(rawUrl), LAMBDA host : Detections(host, r)), LAMBDA detections :
        Fulfilled([id |-> "blacklist",
                   status |-> IF detections > 10 THEN "bad"
                              ELSE IF detections > 0 THEN "warning" ELSE "good",
                   score |-> IF detections > 10 THEN 25
                             ELSE IF detections > 3 THEN 15
                             ELSE IF detections > 0 THEN 5 ELSE 0,
                   maxScore |-> 25,
                   explanation |-> IF detections > 0 THEN <<"flagged">> ELSE <<"not-found">>]))

\* what the fetch of analyzeContent does: a response (HTML or not), the abort after 5 s,
\* a cross-origin block, a network error
FetchOutcomes == {"html", "other", "timeout", "cors", "network"}

FetchFailures == {"timeout", "cors", "network"}

\* analyzeContent without its catch block: a failed fetch rejects the promise
analyzeContentNoCatch(rawUrl, outcome) ==
    IF outcome \notin FetchFailures
    THEN Fulfilled([signal |-> [id |-> "content", status |-> "good", score |-> 0, maxScore |-> 15,
                                explanation |-> IF outcome = "html" THEN <<"html">> ELSE <<"no-type">>],
                    corsBlocked |-> FALSE])
    ELSE Rejected

\* analyzeContent charging a failed fetch the full content weight
analyzeContentFailureScored(rawUrl, outcome) ==
    IF outcome \notin FetchFailures
    THEN Fulfilled([signal |-> [id |-> "content", status |-> "good", score |-> 0, maxScore |-> 15,
                                explanation |-> IF outcome = "html" THEN <<"html">> ELSE <<"no-type">>],
                    corsBlocked |-> FALSE])
    ELSE Fulfilled([signal |-> [id |-> "content", status |-> "bad", score |-> 15, maxScore |-> 15,
                                explanation |-> <<"cors-blocked">>],
                    corsBlocked |-> TRUE])

analyzeContent(rawUrl, outcome) ==
    IF outcome \notin FetchFailures
    THEN Fulfilled([signal |-> [id |-> "content",
                                status |-> "good",
                                score |-> 0,
                                maxScore |-> 15,
                                explanation |-> IF outcome = "html" THEN <<"html">> ELSE <<"no-type">>],
                    corsBlocked |-> FALSE])
    ELSE Fulfilled([signal |-> [id |-> "content",
                                status |-> "unknown",
                                score |-> 0,
                                maxScore |-> 15,
                                explanation |-> <<"cors-blocked">>],
                    corsBlocked |-> TRUE])

\* checkRedirects charging the undetectable redirects the full redirect weight
checkRedirectsScored(rawUrl) ==
    Fulfilled([id |-> "redirect",
               status |-> "unknown",
               score |-> 15,
               maxScore |-> 15,
               explanation |-> <<"server-side">>])

checkRedirects(rawUrl) ==
    Fulfilled([id |-> "redirect",
               status |-> "unknown",
               score |-> 0,
               maxScore |-> 15,
               explanation |-> <<"server-side">>])

(***************************************************************************)
(* The aggregation of checkSiteSafety.                                     *)
(***************************************************************************)
\* CollectSignals pushing the API signals after the content and redirect signals
CollectSignalsLookupsLast(j) ==
    <<j.ssl, j.urlPatterns, j.content.signal, j.redirect>> \o
    (IF j.whois # Null THEN <<j.whois.signal>> ELSE <<>>) \o
    (IF j.safeBrowsing # Null THEN <<j.safeBrowsing>> ELSE <<>>) \o
    (IF j.blacklist # Null THEN <<j.blacklist>> ELSE <<>>)

\* the array "signals": the API signals are pushed when their result is not null
CollectSignals(j) ==
    <<j.ssl, j.urlPatterns>> \o
    (IF j.whois # Null THEN <<j.whois.signal>> ELSE <<>>) \o
    (IF j.safeBrowsing # Null THEN <<j.safeBrowsing>> ELSE <<>>) \o
    (IF j.blacklist # Null THEN <<j.blacklist>> ELSE <<>>) \o
    <<j.content.signal, j.redirect>>

\* TotalScore adding up the weights instead of the scores
RECURSIVE TotalScoreOfMax(_)
TotalScoreOfMax(sigs) == IF sigs = <<>> THEN 0 ELSE Head(sigs).maxScore + TotalScoreOfMax(Tail(sigs))

\* signals.reduce((sum, s) => sum + s.score, 0)
RECURSIVE TotalScore(_)
TotalScore(sigs) == IF sigs = <<>> THEN 0 ELSE Head(sigs).score + TotalScore(Tail(sigs))

\* VerdictOf with exclusive boundaries
VerdictOfStrict(totalScore) ==
    IF totalScore < 10 THEN "safe"
    ELSE IF totalScore < 30 THEN "likely-safe"
    ELSE IF totalScore < 60 THEN "suspicious"
    ELSE "scam"

VerdictOf(totalScore) ==
    IF totalScore <= 10 THEN "safe"
    ELSE IF totalScore <= 30 THEN "likely-safe"
    ELSE IF totalScore <= 60 THEN "suspicious"
    ELSE "scam"

\* generateSuggestions without the suggestion for a bad ssl signal
generateSuggestionsNoSsl(verdict, sigs) ==
    CASE verdict = "safe" -> <<"appears safe", "verify correct URL">>
      [] verdict = "likely-safe" -> <<"normal caution", "verify URL", "look for padlock">>
      [] verdict = "suspicious" ->
             <<"be cautious", "verify official site", "password manager", "report fraudulent">>
      [] verdict = "scam" ->
             <<"do NOT enter", "leave immediately", "change passwords", "report to bank",
               "report to Safe Browsing">>

generateSuggestions(verdict, sigs) ==
    LET tier == CASE verdict = "safe" -> <<"appears safe", "verify correct URL">>
                  [] verdict = "likely-safe" -> <<"normal caution", "verify URL", "look for padlock">>
                  [] verdict = "suspicious" ->
                         <<"be cautious", "verify official site", "password manager", "report fraudulent">>
                  [] verdict = "scam" ->
                         <<"do NOT enter", "leave immediately", "change passwords", "report to bank",
                           "report to Safe Browsing">>
        ssl == SelectSeq(sigs, LAMBDA sg : sg.id = "ssl")
    IN  IF ssl # <<>> /\ Head(ssl).status = "bad" THEN Append(tier, "never on non-HTTPS") ELSE tier

\* the object checkSiteSafety returns
BuildResult(u, normalized, sigs, contentResult) ==
    LET totalScore == TotalScore(sigs)
        verdict == VerdictOf(totalScore)
    IN  [url |-> u,
         normalizedUrl |-> normalized,
         score |-> Min(totalScore, 100),
         verdict |-> verdict,
         signals |-> SubSeq(sigs, 1, Min(Len(sigs), 6)),
         suggestions |-> generateSuggestions(verdict, sigs),
         corsBlocked |-> contentResult.corsBlocked]

TEST_URLS ==
    << [url |-> <<"h","t","t","p","s",":","/","/","g","o","o","g","l","e",".","c","o","m">>,
        expectedVerdict |-> "safe"],
       [url |-> <<"h","t","t","p","s",":","/","/","a","m","a","z","o","n",".","c","o","m">>,
        expectedVerdict |-> "safe"],
       [url |-> <<"h","t","t","p",":","/","/","1","9","2",".","1","6","8",".","1",".","1",
                  "/","l","o","g","i","n">>,
        expectedVerdict |-> "suspicious"],
       [url |-> <<"h","t","t","p","s",":","/","/","g","0","0","g","l","e","-","s","e","c","u","r","e",
                  "-","l","o","g","i","n",".","t","k">>,
        expectedVerdict |-> "scam"],
       [url |-> <<"h","t","t","p","s",":","/","/","p","a","y","p","a","l","-","v","e","r","i","f","y",
                  "-","a","c","c","o","u","n","t",".","x","y","z","/","u","p","d","a","t","e">>,
        expectedVerdict |-> "scam"],
       [url |-> <<"h","t","t","p","s",":","/","/","m","y","-","s","m","a","l","l","-","b","u","s","i",
                  "n","e","s","s",".","c","o","m">>,
        expectedVerdict |-> "likely-safe"] >>

(***************************************************************************)
(* The activity log (getSignInLogs, saveSignInLogs, recordSignIn,          *)
(* recordSignOut).  A SignInLog is [name, email, signInTime, signOutTime]; *)
(* a time is the second new Date() reads and NoTime stands for null.  The  *)
(* log is what JSON.parse returns for the stored item, [] when there is    *)
(* none.                                                                   *)
(***************************************************************************)
NoTime == -1

Emails == {"ann@example.com", "bob@example.com"}

\* the name the component derives from the user's metadata
DisplayName == [email \in Emails |-> IF email = "ann@example.com" THEN "Ann" ELSE "bob"]

\* logs.unshift(newLog); saveSignInLogs(logs)
recordSignIn(logs, name, email, now) ==
    <<[name |-> name, email |-> email, signInTime |-> now, signOutTime |-> NoTime]>> \o logs

\* logs.findIndex(...): the first index whose record matches, 0 for -1
FindOpenIndex(logs, email) ==
    LET open == {i \in 1..Len(logs) : logs[i].email = email /\ logs[i].signOutTime = NoTime}
    IN  IF open = {} THEN 0 ELSE CHOOSE i \in open : \A k \in open : i <= k

\* recordSignOut closing the oldest open record of the email
recordSignOutOldest(logs, email, now) ==
    LET open == {i \in 1..Len(logs) : logs[i].email = email /\ logs[i].signOutTime = NoTime}
    IN  IF open = {} THEN logs
        ELSE [logs EXCEPT ![CHOOSE i \in open : \A k \in open : i >= k].signOutTime = now]

recordSignOut(logs, email, now) ==
    LET userLogIndex == FindOpenIndex(logs, email)
    IN  IF userLogIndex # 0 THEN [logs EXCEPT ![userLogIndex].signOutTime = now] ELSE logs

(***************************************************************************)
(* State.                                                                  *)
(***************************************************************************)
VARIABLES
    pc,             \* checkSiteSafety: "Idle", "Running", "Joined", "Mutated", "Complete", "Rejected"
    url,            \* its argument url
    useApiMocks,    \* its argument useApiMocks
    normalizedUrl,  \* const normalizedUrl
    domain,         \* const domain
    promises,       \* the seven promises handed to Promise.all
    dispatched,     \* how often each evaluator has been started
    fetchOutcome,   \* what the fetch of analyzeContent did, "none" before it settles
    joined,         \* the values destructured from the await, Null before
    signals,        \* the array "signals" before the slice
    result,         \* the returned CheckResult, Null before
    normIn,         \* the string handed to normalizeUrl
    normOnce,       \* normalizeUrl(normIn)
    normTwice,      \* normalizeUrl(normalizeUrl(normIn))
    normPc,         \* "start", "once", "twice"
    uiUrl,          \* SiteSafetyChecker: the state url (the input field)
    uiUseApiMocks,  \* the state useApiMocks (the switch)
    isLoading,      \* the state isLoading
    uiResult,       \* the state result, Null or a CheckResult
    showWhy,        \* the state showWhy
    demoIndex,      \* the state demoIndex
    toast,          \* the title of the last toast, "none" before the first
    calls,          \* the checkSiteSafety invocations the component started, in order
    session,        \* the state session: "none" or the email of the signed-in user
    currentUser,    \* the state currentUser: "none" or the email of the user
    isAuthLoading,  \* the state isAuthLoading
    signInLogs,     \* localStorage["signInLogs"]: the activity log, newest first
    clock,          \* the time new Date() reads
    logoutPc,       \* handleLogout: "idle", or "awaiting" the answer of supabase.auth.signOut()
    welcomeTimer,   \* the setTimeout(..., 0) of a SIGNED_IN event: "none" or the email to record
    sessionCount    \* how many sessions have become active so far

checkVars ==
    <<pc, url, useApiMocks, normalizedUrl, domain, promises, dispatched, fetchOutcome, joined,
      signals, result>>

normVars == <<normIn, normOnce, normTwice, normPc>>

uiVars == <<uiUrl, uiUseApiMocks, isLoading, uiResult, showWhy, demoIndex, toast, calls>>

authVars ==
    <<session, currentUser, isAuthLoading, signInLogs, clock, logoutPc, welcomeTimer, sessionCount>>

vars ==
    <<pc, url, useApiMocks, normalizedUrl, domain, promises, dispatched, fetchOutcome, joined,
      signals, result, normIn, normOnce, normTwice, normPc,
      uiUrl, uiUseApiMocks, isLoading, uiResult, showWhy, demoIndex, toast, calls,
      session, currentUser, isAuthLoading, signInLogs, clock, logoutPc, welcomeTimer, sessionCount>>

Evaluators == {"ssl", "urlPatterns", "content", "redirect", "safeBrowsing", "whois", "blacklist"}

(***************************************************************************)
(* The inputs of checkSiteSafety.                                          *)
(***************************************************************************)
Repeat(c, n) == SubSeq([i \in 1..n |-> c], 1, n)

Hosts ==
    {<<"g","o","o","g","l","e",".","c","o","m">>,
     <<"w","w","w",".","g","o","o","g","l","e",".","c","o","m">>,
     <<"f","a","c","e","b","o","o","k",".","c","o","m">>,
     <<"e","x","a","m","p","l","e",".","o","r","g">>,
     <<"e","x","a","m","p","l","e",".","g","o","v">>,
     <<"s","e","c","u","r","e",".","l","o","g","i","n",".","i","r","s",".","g","o","v">>,
     <<"1","9","2",".","1","6","8",".","1",".","1">>,
     <<"1","0",".","1">>,
     <<"1",".","2",".","3",".","4",".","5">>,
     <<"g","0","0","g","l","e","-","s","e","c","u","r","e","-","l","o","g","i","n",".","t","k">>,
     <<"p","h","i","s","h","i","n","g","-","m","a","l","w","a","r","e","-","s","i","t","e",".","c","o","m">>,
     <<"s","u","s","p","i","c","i","o","u","s","-","s","h","o","p",".","l","i","n","k">>,
     <<"a",".","b",".","c",".","d",".","s","e","c","u","r","e","-","l","0","g","i","n","-","v","e","r",
       "i","f","y","-","p","h","i","s","h","i","n","g",".","t","k">>,
     <<"x","n","-","-","8","0","a","k","6","a","a","9","2","e",".","c","o","m">>,
     <<"c","o","n","s","t","r","u","c","t","o","r">>,
     Repeat("w", 51) \o <<".","c","o","m">>,
     <<>>}

Schemes == {<<>>, HttpPrefix, HttpsPrefix}

CheckInputs ==
    {s \o h : s \in Schemes, h \in Hosts} \cup
    {TEST_URLS[i].url : i \in 1..Len(TEST_URLS)} \cup
    {<<" ","H","T","T","P","S",":","/","/","G","o","o","g","l","e",".","C","O","M","/"," ">>,
     HttpsPrefix \o <<"e","x","a","m","p","l","e",".","o","r","g","?","q","=">> \o Repeat("a", 199),
     HttpsPrefix \o <<"e","x","a","m","p","l","e",".","o","r","g","?","q","=">> \o Repeat("a", 198),
     HttpPrefix \o <<"e","x","a","m","p","l","e",".","o","r","g",":","8","0","8","0","/","/">>}

(***************************************************************************)
(* checkSiteSafety(url, useApiMocks).                                      *)
(***************************************************************************)
Init ==
    /\ pc = "Idle"
    /\ url = <<>>
    /\ useApiMocks = FALSE
    /\ normalizedUrl = <<>>
    /\ domain = <<>>
    /\ promises = [e \in Evaluators |-> Pending]
    /\ dispatched = [e \in Evaluators |-> 0]
    /\ fetchOutcome = "none"
    /\ joined = Null
    /\ signals = <<>>
    /\ result = Null
    /\ normIn = <<>>
    /\ normOnce = <<>>
    /\ normTwice = <<>>
    /\ normPc = "start"
    /\ uiUrl = <<>>
    /\ uiUseApiMocks = FALSE
    /\ isLoading = FALSE
    /\ uiResult = Null
    /\ showWhy = FALSE
    /\ demoIndex = 0
    /\ toast = "none"
    /\ calls = <<>>
    /\ session = "none"
    /\ currentUser = "none"
    /\ isAuthLoading = TRUE
    /\ signInLogs = <<>>
    /\ clock = 0
    /\ logoutPc = "idle"
    /\ welcomeTimer = "none"
    /\ sessionCount = 0

\* Dispatches ignoring useApiMocks
DispatchesAlways(e, mocks) == TRUE

\* Dispatches starting analyzeContent and checkRedirects only with useApiMocks
DispatchesOnlyWithMocks(e, mocks) ==
    IF e \in {"ssl", "urlPatterns"} THEN TRUE ELSE mocks

\* which evaluators one invocation starts: the array handed to Promise.all
Dispatches(e, mocks) ==
    IF e \in {"safeBrowsing", "whois", "blacklist"} THEN mocks ELSE TRUE

\* The call, up to the await: the synchronous evaluators have run, analyzeContent waits
\* for its fetch and the three lookups for their timers (or are Promise.resolve(null)).
\* The caller has checked isValidUrl.
Invoke(u, mocks) ==
    /\ pc = "Idle"
    /\ isValidUrl(u)
    /\ pc' = "Running"
    /\ url' = u
    /\ useApiMocks' = mocks
    /\ normalizedUrl' = normalizeUrl(u)
    /\ domain' = extractDomain(u)
    /\ promises' =
           [e \in Evaluators |->
               CASE e = "ssl" -> Fulfilled(checkSsl(u))
                 [] e = "urlPatterns" -> Fulfilled(checkUrlPatterns(u))
                 [] e = "redirect" -> checkRedirects(u)
                 [] e = "content" -> Pending
                 [] OTHER -> IF Dispatches(e, mocks) THEN Pending ELSE Fulfilled(Null)]
    /\ dispatched' = [e \in Evaluators |-> IF Dispatches(e, mocks) THEN dispatched[e] + 1 ELSE dispatched[e]]
    /\ UNCHANGED <<fetchOutcome, joined, signals, result, normVars, uiVars, authVars>>

\* the fetch of analyzeContent settles, or its 5 s abort timer fires
FetchSettle(outcome) ==
    /\ pc = "Running"
    /\ promises["content"].state = "pending"
    /\ promises' = [promises EXCEPT !["content"] = analyzeContent(url, outcome)]
    /\ fetchOutcome' = outcome
    /\ UNCHANGED <<pc, url, useApiMocks, normalizedUrl, domain, dispatched, joined, signals, result, normVars, uiVars, authVars>>

\* the 500 ms timer of safeBrowsingLookup fires
SafeBrowsingTimer ==
    /\ pc = "Running"
    /\ promises["safeBrowsing"].state = "pending"
    /\ promises' = [promises EXCEPT !["safeBrowsing"] = safeBrowsingLookup(url)]
    /\ UNCHANGED <<pc, url, useApiMocks, normalizedUrl, domain, dispatched, fetchOutcome, joined, signals, result, normVars, uiVars, authVars>>

\* the 600 ms timer of whoisLookup fires
WhoisTimer(r) ==
    /\ pc = "Running"
    /\ promises["whois"].state = "pending"
    /\ promises' = [promises EXCEPT !["whois"] = whoisLookup(domain, r)]
    /\ UNCHANGED <<pc, url, useApiMocks, normalizedUrl, domain, dispatched, fetchOutcome, joined, signals, result, normVars, uiVars, authVars>>

\* the 700 ms timer of blacklistLookup fires
BlacklistTimer(r) ==
    /\ pc = "Running"
    /\ promises["blacklist"].state = "pending"
    /\ promises' = [promises EXCEPT !["blacklist"] = blacklistLookup(url, r)]
    /\ UNCHANGED <<pc, url, useApiMocks, normalizedUrl, domain, dispatched, fetchOutcome, joined, signals, result, normVars, uiVars, authVars>>

\* await Promise.all: resumes with the values when all are fulfilled, throws when one rejected
Join ==
    /\ pc = "Running"
    /\ \/ \A e \in Evaluators : promises[e].state = "fulfilled"
       \/ \E e \in Evaluators : promises[e].state = "rejected"
    /\ IF \E e \in Evaluators : promises[e].state = "rejected"
       THEN pc' = "Rejected" /\ joined' = joined
       ELSE pc' = "Joined" /\ joined' = [e \in Evaluators |-> promises[e].value]
    /\ UNCHANGED <<url, useApiMocks, normalizedUrl, domain, promises, dispatched, fetchOutcome, signals, result, normVars, uiVars, authVars>>

\* Homograph updating the URL-Pattern signal as soon as checkUrlPatterns has returned, while
\* the lookups are still pending
HomographBeforeJoin ==
    /\ pc = "Running"
    /\ promises["urlPatterns"].value = checkUrlPatterns(url)
    /\ checkHomographAttack(url).isHomograph
    /\ promises' = [promises EXCEPT !["urlPatterns"] =
                        Fulfilled(ApplyHomograph(@.value, checkHomographAttack(url)))]
    /\ UNCHANGED <<pc, url, useApiMocks, normalizedUrl, domain, dispatched, fetchOutcome, joined, signals, result, normVars, uiVars, authVars>>

\* the homograph check and the update of urlPatternsSignal
Homograph ==
    /\ pc = "Joined"
    /\ joined' = [joined EXCEPT !["urlPatterns"] = ApplyHomograph(@, checkHomographAttack(url))]
    /\ pc' = "Mutated"
    /\ UNCHANGED <<url, useApiMocks, normalizedUrl, domain, promises, dispatched, fetchOutcome, signals, result, normVars, uiVars, authVars>>

\* collect the signals, sum, classify, build the result and return it
Aggregate ==
    /\ pc = "Mutated"
    /\ \E collected \in {CollectSignals(joined)} :
           /\ signals' = collected
           /\ result' = BuildResult(url, normalizedUrl, collected, joined["content"])
    /\ pc' = "Complete"
    /\ UNCHANGED <<url, useApiMocks, normalizedUrl, domain, promises, dispatched, fetchOutcome, joined, normVars, uiVars, authVars>>

Next ==
    \/ \E u \in CheckInputs, mocks \in BOOLEAN : Invoke(u, mocks)
    \/ \E outcome \in FetchOutcomes : FetchSettle(outcome)
    \/ SafeBrowsingTimer
    \/ \E r \in 0..(RandomDen - 1) : WhoisTimer(r)
    \/ \E r \in 0..(RandomDen - 1) : BlacklistTimer(r)
    \/ Join
    \/ Homograph
    \/ Aggregate

Spec == Init /\ [][Next]_vars

\* the event loop runs every settled continuation, every timer fires and the fetch settles
\* or is aborted after 5 s
FairSpec ==
    /\ Spec
    /\ WF_vars(\E outcome \in FetchOutcomes : FetchSettle(outcome))
    /\ WF_vars(SafeBrowsingTimer)
    /\ WF_vars(\E r \in 0..(RandomDen - 1) : WhoisTimer(r))
    /\ WF_vars(\E r \in 0..(RandomDen - 1) : BlacklistTimer(r))
    /\ WF_vars(Join)
    /\ WF_vars(Homograph)
    /\ WF_vars(Aggregate)

(***************************************************************************)
(* normalizeUrl applied once and twice to a bounded set of raw inputs.     *)
(***************************************************************************)
NormAlphabet == {" ", "/", ":", "a", "A"}

NormPrefixes ==
    {<<>>, HttpPrefix, HttpsPrefix, <<"H","T","T","P","S",":","/","/">>, <<" ">> \o HttpPrefix}

SeqsUpTo(S, n) == UNION {[1..k -> S] : k \in 0..n}

NormInputs == {p \o b : p \in NormPrefixes, b \in SeqsUpTo(NormAlphabet, MaxNormLen)}

NormInit ==
    /\ normIn \in NormInputs
    /\ normOnce = <<>>
    /\ normTwice = <<>>
    /\ normPc = "start"
    /\ pc = "Idle"
    /\ url = <<>>
    /\ useApiMocks = FALSE
    /\ normalizedUrl = <<>>
    /\ domain = <<>>
    /\ promises = [e \in Evaluators |-> Pending]
    /\ dispatched = [e \in Evaluators |-> 0]
    /\ fetchOutcome = "none"
    /\ joined = Null
    /\ signals = <<>>
    /\ result = Null
    /\ uiUrl = <<>>
    /\ uiUseApiMocks = FALSE
    /\ isLoading = FALSE
    /\ uiResult = Null
    /\ showWhy = FALSE
    /\ demoIndex = 0
    /\ toast = "none"
    /\ calls = <<>>
    /\ session = "none"
    /\ currentUser = "none"
    /\ isAuthLoading = TRUE
    /\ signInLogs = <<>>
    /\ clock = 0
    /\ logoutPc = "idle"
    /\ welcomeTimer = "none"
    /\ sessionCount = 0

NormalizeFirst ==
    /\ normPc = "start"
    /\ normOnce' = normalizeUrl(normIn)
    /\ normPc' = "once"
    /\ UNCHANGED <<normIn, normTwice, checkVars, uiVars, authVars>>

NormalizeAgain ==
    /\ normPc = "once"
    /\ normTwice' = normalizeUrl(normOnce)
    /\ normPc' = "twice"
    /\ UNCHANGED <<normIn, normOnce, checkVars, uiVars, authVars>>

NormNext == NormalizeFirst \/ NormalizeAgain

SpecNormalize == NormInit /\ [][NormNext]_vars

(***************************************************************************)
(* The component SiteSafetyChecker (src/unnamed/part_000 and part_001):    *)
(* the input field, the switch, handleCheck, handleRunDemo and the         *)
(* checkSiteSafety invocations they start.  An invocation is one record of *)
(* calls; its steps are those of Spec, here it is followed from its start  *)
(* to its return, after which the awaiting handler continues.              *)
(***************************************************************************)
\* what the user types into the input field (it is empty before)
UiInputs ==
    {<<" ">>,
     <<"1",".","2",".","3",".","4",".","5">>,
     <<"g","0","0","g","l","e","-","s","e","c","u","r","e","-","l","o","g","i","n",".","t","k">>,
     <<"c","o","n","s","t","r","u","c","t","o","r">>}

\* what the fetch does and what Math.random() returns for these invocations
UiFetchOutcomes == {"html", "timeout"}

UiRandoms == {0, RandomDen - 1}

\* how the seven promises handed to Promise.all settle
Settlements(u, mocks, outcome, rw, rb) ==
    [e \in Evaluators |->
        CASE e = "ssl" -> Fulfilled(checkSsl(u))
          [] e = "urlPatterns" -> Fulfilled(checkUrlPatterns(u))
          [] e = "content" -> analyzeContent(u, outcome)
          [] e = "redirect" -> checkRedirects(u)
          [] e = "safeBrowsing" -> IF Dispatches(e, mocks) THEN safeBrowsingLookup(u) ELSE Fulfilled(Null)
          [] e = "whois" -> IF Dispatches(e, mocks) THEN whoisLookup(extractDomain(u), rw) ELSE Fulfilled(Null)
          [] e = "blacklist" -> IF Dispatches(e, mocks) THEN blacklistLookup(u, rb) ELSE Fulfilled(Null)]

\* the values the await of Promise.all yields
Resolved(u, mocks, outcome, rw, rb) ==
    With(Settlements(u, mocks, outcome, rw, rb), LAMBDA settled :
        [e \in Evaluators |-> settled[e].value])

\* how the promise of one invocation settles for the given responses of its lookups: with
\* the CheckResult, or rejected when one of the seven promises is
checkSiteSafety(u, mocks, outcome, rw, rb) ==
    With(Settlements(u, mocks, outcome, rw, rb), LAMBDA settled :
        IF \E e \in Evaluators : settled[e].state = "rejected" THEN Rejected
        ELSE
    With([e \in Evaluators |-> settled[e].value], LAMBDA j :
    With(ApplyHomograph(j["urlPatterns"], checkHomographAttack(u)), LAMBDA urlPatternsSignal :
    With(CollectSignals([j EXCEPT !["urlPatterns"] = urlPatternsSignal]), LAMBDA collected :
        Fulfilled(BuildResult(u, normalizeUrl(u), collected, j["content"]))))))

\* the strings the url state takes: what is typed and what handleRunDemo sets
UiUrls == {<<>>} \cup UiInputs \cup {TEST_URLS[i].url : i \in 1..Len(TEST_URLS)}

\* isValidUrl and checkSiteSafety on these strings, evaluated once
ValidOf == [u \in UiUrls |-> isValidUrl(u)]

BlankOf == [u \in UiUrls |-> Trim(u) = <<>>]

\* (AgeOf and DetectionsOf: the resolved age and the detection count, -1 without the lookup)
ResultOf ==
    [u \in UiUrls, mocks \in BOOLEAN, outcome \in UiFetchOutcomes, rw \in UiRandoms, rb \in UiRandoms |->
        checkSiteSafety(u, mocks, outcome, rw, rb)]

ResolvedOf ==
    [u \in UiUrls, mocks \in BOOLEAN, outcome \in UiFetchOutcomes, rw \in UiRandoms, rb \in UiRandoms |->
        Resolved(u, mocks, outcome, rw, rb)]

HomographOf == [u \in UiUrls |-> checkHomographAttack(u)]

AgeOf == [u \in UiUrls, mocks \in BOOLEAN, rw \in UiRandoms |-> IF mocks THEN ResolveAge(extractDomain(u), rw) ELSE -1]

DetectionsOf ==
    [u \in UiUrls, mocks \in BOOLEAN, rb \in UiRandoms |-> IF mocks THEN Detections(extractDomain(u), rb) ELSE -1]

\* a started invocation
NewCall(u, mocks, handler) ==
    [url |-> u, useApiMocks |-> mocks, handler |-> handler, session |-> sessionCount, pc |-> "Running",
     fetchOutcome |-> "none", ageYears |-> -1, detections |-> -1, result |-> Null]

\* the checker is rendered: neither the loading state nor the login screen is shown
Rendered == ~isAuthLoading /\ session # "none" /\ currentUser # "none"

\* onChange of the input field: setUrl(e.target.value)
TypeUrl(u) ==
    /\ Rendered
    /\ u # uiUrl
    /\ uiUrl' = u
    /\ UNCHANGED <<uiUseApiMocks, isLoading, uiResult, showWhy, demoIndex, toast, calls, checkVars, normVars, authVars>>

\* onCheckedChange of the switch: setUseApiMocks
ToggleApiMocks ==
    /\ Rendered
    /\ uiUseApiMocks' = ~uiUseApiMocks
    /\ UNCHANGED <<uiUrl, isLoading, uiResult, showWhy, demoIndex, toast, calls, checkVars, normVars, authVars>>

\* handleCheck without the isValidUrl test
HandleCheckWithoutValidation ==
    /\ Rendered
    /\ IF BlankOf[uiUrl]
       THEN /\ toast' = "Please enter a URL"
            /\ UNCHANGED <<isLoading, uiResult, calls>>
       ELSE /\ Len(calls) < MaxCalls
            /\ isLoading' = TRUE
            /\ uiResult' = Null
            /\ calls' = Append(calls, NewCall(uiUrl, uiUseApiMocks, "handleCheck"))
            /\ toast' = toast
    /\ UNCHANGED <<uiUrl, uiUseApiMocks, showWhy, demoIndex, checkVars, normVars, authVars>>

\* handleCheck up to its await (the button, or the Enter key in the input field)
HandleCheck ==
    /\ Rendered
    /\ IF BlankOf[uiUrl]
       THEN /\ toast' = "Please enter a URL"
            /\ UNCHANGED <<isLoading, uiResult, calls>>
       ELSE IF ~ValidOf[uiUrl]
       THEN /\ toast' = "Invalid URL"
            /\ UNCHANGED <<isLoading, uiResult, calls>>
       ELSE /\ Len(calls) < MaxCalls
            /\ isLoading' = TRUE
            /\ uiResult' = Null
            /\ calls' = Append(calls, NewCall(uiUrl, uiUseApiMocks, "handleCheck"))
            /\ toast' = toast
    /\ UNCHANGED <<uiUrl, uiUseApiMocks, showWhy, demoIndex, checkVars, normVars, authVars>>

\* handleRunDemo up to its await
HandleRunDemo ==
    /\ Rendered
    /\ Len(calls) < MaxCalls
    /\ uiUrl' = TEST_URLS[demoIndex + 1].url
    /\ demoIndex' = (demoIndex + 1) % Len(TEST_URLS)
    /\ isLoading' = TRUE
    /\ uiResult' = Null
    /\ calls' = Append(calls, NewCall(TEST_URLS[demoIndex + 1].url, uiUseApiMocks, "handleRunDemo"))
    /\ UNCHANGED <<uiUseApiMocks, showWhy, toast, checkVars, normVars, authVars>>

\* CheckReturns with the URL-Pattern signal of a url kept between invocations: the homograph
\* update is applied to the object an earlier invocation on the same url has already updated
CheckReturnsSharedSignal(i, outcome, rw, rb) ==
    /\ i \in 1..Len(calls)
    /\ calls[i].pc = "Running"
    /\ ResultOf[calls[i].url, calls[i].useApiMocks, outcome, rw, rb].state = "fulfilled"
    /\ LET u == calls[i].url
           mocks == calls[i].useApiMocks
           earlier == {k \in 1..Len(calls) : calls[k].pc = "Returned" /\ calls[k].url = u}
           j == ResolvedOf[u, mocks, outcome, rw, rb]
           shared == IF earlier = {} THEN j["urlPatterns"]
                     ELSE calls[CHOOSE k \in earlier : TRUE].result.signals[2]
           collected == CollectSignals([j EXCEPT !["urlPatterns"] = ApplyHomograph(shared, HomographOf[u])])
       IN  \E checkResult \in {BuildResult(u, ResultOf[u, mocks, outcome, rw, rb].value.normalizedUrl, collected,
                                            j["content"])} :
               /\ calls' = [calls EXCEPT ![i] = [@ EXCEPT !.pc = "Returned",
                                                          !.fetchOutcome = outcome,
                                                          !.ageYears = AgeOf[u, mocks, rw],
                                                          !.detections = DetectionsOf[u, mocks, rb],
                                                          !.result = checkResult]]
               /\ uiResult' = checkResult
    /\ showWhy' = TRUE
    /\ isLoading' = FALSE
    /\ UNCHANGED <<uiUrl, uiUseApiMocks, demoIndex, toast, checkVars, normVars, authVars>>

\* the lookups of invocation i settle with the given responses, checkSiteSafety returns and
\* the handler awaiting it continues: setResult, setShowWhy(true), finally setIsLoading(false)
CheckReturns(i, outcome, rw, rb) ==
    /\ i \in 1..Len(calls)
    /\ calls[i].pc = "Running"
    /\ ResultOf[calls[i].url, calls[i].useApiMocks, outcome, rw, rb].state = "fulfilled"
    /\ LET u == calls[i].url
           mocks == calls[i].useApiMocks
       IN  \E checkResult \in {ResultOf[u, mocks, outcome, rw, rb].value} :
               /\ calls' = [calls EXCEPT ![i] = [@ EXCEPT !.pc = "Returned",
                                                          !.fetchOutcome = outcome,
                                                          !.ageYears = AgeOf[u, mocks, rw],
                                                          !.detections = DetectionsOf[u, mocks, rb],
                                                          !.result = checkResult]]
               /\ uiResult' = checkResult
    /\ showWhy' = TRUE
    /\ isLoading' = FALSE
    /\ UNCHANGED <<uiUrl, uiUseApiMocks, demoIndex, toast, checkVars, normVars, authVars>>

\* a lookup of invocation i rejects, checkSiteSafety rejects and the handler awaiting it
\* continues: handleCheck with its catch (the toast) and finally setIsLoading(false),
\* handleRunDemo with its finally alone
CheckFails(i, outcome, rw, rb) ==
    /\ i \in 1..Len(calls)
    /\ calls[i].pc = "Running"
    /\ ResultOf[calls[i].url, calls[i].useApiMocks, outcome, rw, rb].state = "rejected"
    /\ calls' = [calls EXCEPT ![i] = [@ EXCEPT !.pc = "Rejected"]]
    /\ toast' = IF calls[i].handler = "handleCheck" THEN "Error checking site" ELSE toast
    /\ isLoading' = FALSE
    /\ UNCHANGED <<uiUrl, uiUseApiMocks, uiResult, showWhy, demoIndex, checkVars, normVars, authVars>>

\* the draws of Math.random() invocation i makes: none without the lookups
LookupRandoms(i) == IF calls[i].useApiMocks THEN UiRandoms ELSE {0}

\* the .then of supabase.auth.getSession(), with the stored session (s) or none.  When an
\* auth event has been delivered first, getSession yields the session that event set and
\* the callback changes nothing.
GetSessionResolves(s) ==
    /\ isAuthLoading
    /\ session' = s
    /\ currentUser' = IF s # "none" THEN s ELSE currentUser
    /\ isAuthLoading' = FALSE
    /\ sessionCount' = IF s # "none" /\ session = "none" THEN sessionCount + 1 ELSE sessionCount
    /\ UNCHANGED <<signInLogs, clock, logoutPc, welcomeTimer, checkVars, normVars, uiVars>>

UiNext ==
    \/ GetSessionResolves("ann@example.com")
    \/ \E u \in UiInputs : TypeUrl(u)
    \/ ToggleApiMocks
    \/ HandleCheck
    \/ HandleRunDemo
    \/ \E i \in 1..Len(calls), outcome \in UiFetchOutcomes :
           \E rw \in LookupRandoms(i), rb \in LookupRandoms(i) : CheckReturns(i, outcome, rw, rb)
    \/ \E i \in 1..Len(calls), outcome \in UiFetchOutcomes :
           \E rw \in LookupRandoms(i), rb \in LookupRandoms(i) : CheckFails(i, outcome, rw, rb)

SpecUi == Init /\ [][UiNext]_vars

(***************************************************************************)
(* The session of SiteSafetyChecker: the auth events of the identity       *)
(* provider, handleLogout and the activity log.                            *)
(***************************************************************************)
\* the second new Date() reads advances
Tick ==
    /\ clock < MaxClock
    /\ clock' = clock + 1
    /\ UNCHANGED <<session, currentUser, isAuthLoading, signInLogs, logoutPc, welcomeTimer, sessionCount,
                   checkVars, normVars, uiVars>>

\* a call of recordSignIn(name, email)
RecordSignIn(name, email) ==
    /\ Len(signInLogs) < MaxLogs
    /\ signInLogs' = recordSignIn(signInLogs, name, email, clock)
    /\ UNCHANGED <<session, currentUser, isAuthLoading, clock, logoutPc, welcomeTimer, sessionCount,
                   checkVars, normVars, uiVars>>

\* a call of recordSignOut(email)
RecordSignOut(email) ==
    /\ signInLogs' = recordSignOut(signInLogs, email, clock)
    /\ UNCHANGED <<session, currentUser, isAuthLoading, clock, logoutPc, welcomeTimer, sessionCount,
                   checkVars, normVars, uiVars>>

LogNext ==
    \/ Tick
    \/ \E email \in Emails : RecordSignIn(DisplayName[email], email)
    \/ \E email \in Emails : RecordSignOut(email)

SpecLog == Init /\ [][LogNext]_vars

\* onAuthStateChange delivers SIGNED_IN with the session of the user who signed in on the
\* login screen; recordSignIn and the toast are deferred with setTimeout(..., 0)
AuthSignedIn(email) ==
    /\ session = "none"
    /\ welcomeTimer = "none"
    /\ sessionCount < MaxSessions
    /\ session' = email
    /\ currentUser' = email
    /\ welcomeTimer' = email
    /\ isAuthLoading' = FALSE
    /\ sessionCount' = sessionCount + 1
    /\ UNCHANGED <<signInLogs, clock, logoutPc, checkVars, normVars, uiVars>>

\* the timer of the SIGNED_IN event fires
WelcomeTimer ==
    /\ welcomeTimer # "none"
    /\ signInLogs' = recordSignIn(signInLogs, DisplayName[welcomeTimer], welcomeTimer, clock)
    /\ toast' = "Welcome!"
    /\ welcomeTimer' = "none"
    /\ UNCHANGED <<session, currentUser, isAuthLoading, clock, logoutPc, sessionCount,
                   uiUrl, uiUseApiMocks, isLoading, uiResult, showWhy, demoIndex, calls, checkVars, normVars>>

\* onAuthStateChange delivers SIGNED_OUT on the provider's initiative (the session expired
\* or was ended elsewhere)
AuthSignedOut ==
    /\ session # "none"
    /\ session' = "none"
    /\ currentUser' = "none"
    /\ isAuthLoading' = FALSE
    /\ UNCHANGED <<signInLogs, clock, logoutPc, welcomeTimer, sessionCount, checkVars, normVars, uiVars>>

\* handleLogout up to its await: recordSignOut, then the call of supabase.auth.signOut()
HandleLogout ==
    /\ Rendered
    /\ logoutPc = "idle"
    /\ signInLogs' = IF currentUser # "none" THEN recordSignOut(signInLogs, currentUser, clock)
                     ELSE signInLogs
    /\ logoutPc' = "awaiting"
    /\ UNCHANGED <<session, currentUser, isAuthLoading, clock, welcomeTimer, sessionCount,
                   checkVars, normVars, uiVars>>

\* supabase.auth.signOut() answers.  With an error handleLogout shows a toast and returns;
\* without one the provider has ended the session and delivered SIGNED_OUT, and
\* handleLogout goes on with setResult(null), setUrl("") and its toast
SignOutSettles(ok) ==
    /\ logoutPc = "awaiting"
    /\ logoutPc' = "idle"
    /\ IF ok
       THEN /\ session' = "none"
            /\ currentUser' = "none"
            /\ isAuthLoading' = FALSE
            /\ uiResult' = Null
            /\ uiUrl' = <<>>
            /\ toast' = "Signed out"
       ELSE /\ toast' = "Sign out failed"
            /\ UNCHANGED <<session, currentUser, isAuthLoading, uiResult, uiUrl>>
    /\ UNCHANGED <<signInLogs, clock, welcomeTimer, sessionCount,
                   uiUseApiMocks, isLoading, showWhy, demoIndex, calls, checkVars, normVars>>

\* what the user types in a session
SessionInputs == {<<"g","0","0","g","l","e","-","s","e","c","u","r","e","-","l","o","g","i","n",".","t","k">>}

SessionNext ==
    \/ GetSessionResolves("none")
    \/ \E email \in Emails : AuthSignedIn(email)
    \/ WelcomeTimer
    \/ AuthSignedOut
    \/ HandleLogout
    \/ \E ok \in BOOLEAN : SignOutSettles(ok)
    \/ \E u \in SessionInputs : TypeUrl(u)
    \/ HandleCheck
    \/ \E i \in 1..Len(calls) : CheckReturns(i, "html", 0, 0)

SpecSession == Init /\ [][SessionNext]_vars

(***************************************************************************)
(* Properties.                                                             *)
(***************************************************************************)
Ids(sigs) == [i \in 1..Len(sigs) |-> sigs[i].id]

SignalById(sigs, id) == sigs[CHOOSE i \in 1..Len(sigs) : sigs[i].id = id]

SumOfScores(sigs) ==
    LET RECURSIVE Upto(_)
        Upto(n) == IF n = 0 THEN 0 ELSE Upto(n - 1) + sigs[n].score
    IN  Upto(Len(sigs))

Clamp(x, lo, hi) == IF x < lo THEN lo ELSE IF x > hi THEN hi ELSE x

\* C1: the returned score is the sum of the scores of all collected signals (the full
\* array, before the slice to 6) clamped to [0,100], hence between 0 and 100.
ScoreIsClampedSum ==
    pc = "Complete" =>
        /\ result.score = Clamp(SumOfScores(signals), 0, 100)
        /\ result.score \in 0..100
        /\ Len(signals) = IF useApiMocks THEN 7 ELSE 4

ScoreIsClampedSumWitness ==
    /\ pc = "Complete"
    /\ Len(signals) = 7
    /\ Len(result.signals) = 6
    /\ result.score = 95

\* C2: the returned verdict is fixed by the returned score: at most 10 safe, 11..30
\* likely-safe, 31..60 suspicious, above 60 scam.
VerdictByThresholds ==
    pc = "Complete" =>
        /\ result.score \in 0..10 => result.verdict = "safe"
        /\ result.score \in 11..30 => result.verdict = "likely-safe"
        /\ result.score \in 31..60 => result.verdict = "suspicious"
        /\ result.score > 60 => result.verdict = "scam"

VerdictByThresholdsWitness ==
    /\ pc = "Complete"
    /\ result.score = 10
    /\ result.verdict = "safe"

MaxScoreOfKind ==
    [ssl |-> 10, urlPatterns |-> 20, whois |-> 15, blacklist |-> 25, content |-> 15, redirect |-> 15,
     safeBrowsing |-> 25]

KindOfId ==
    "ssl" :> "ssl" @@ "url-patterns" :> "urlPatterns" @@ "domain-age" :> "whois" @@
    "blacklist" :> "blacklist" @@ "content" :> "content" @@ "redirect" :> "redirect" @@
    "safe-browsing" :> "safeBrowsing"

SignalInBounds(sg) ==
    /\ sg.id \in DOMAIN KindOfId
    /\ sg.maxScore = MaxScoreOfKind[KindOfId[sg.id]]
    /\ sg.score \in 0..sg.maxScore

\* C3: every signal of a returned CheckResult has 0 <= score <= maxScore with the fixed
\* maxScore of its kind, and so has the URL-Pattern signal before and after the homograph
\* update.
SignalScoresBounded ==
    /\ pc = "Complete" => \A i \in 1..Len(result.signals) : SignalInBounds(result.signals[i])
    /\ pc # "Idle" => SignalInBounds(promises["urlPatterns"].value)
    /\ pc \in {"Joined", "Mutated", "Complete"} => SignalInBounds(joined["urlPatterns"])

SignalScoresBoundedWitness ==
    /\ pc = "Complete"
    /\ promises["urlPatterns"].value.score = 15
    /\ SignalById(result.signals, "url-patterns").score = 20
    /\ "lookalike" \in {SignalById(result.signals, "url-patterns").explanation[i] :
                           i \in 1..Len(SignalById(result.signals, "url-patterns").explanation)}

\* C4: normalizeUrl is idempotent: normalizeUrl(normalizeUrl(x)) = normalizeUrl(x) for
\* every input x, the empty string and a bare scheme included.
NormalizeIdempotent == normPc = "twice" => normTwice = normOnce

\* C5: an invocation on a valid input completes with a CheckResult whatever each lookup
\* does; it never ends rejected and no lookup is started twice.
CheckAlwaysCompletes ==
    /\ [](pc # "Rejected" /\ \A e \in Evaluators : dispatched[e] <= 1)
    /\ (pc = "Running") ~> (pc = "Complete" /\ result # Null)

\* the result of the same assessment with a successful fetch
ResultWithFetchOk ==
    LET ok == analyzeContent(url, "html").value
    IN  BuildResult(url, normalizedUrl, CollectSignals([joined EXCEPT !["content"] = ok]), ok)

\* C6: a failed content fetch gives the content signal unknown/0 and corsBlocked = TRUE
\* and changes nothing else: the other signals, the score and the verdict are those of the
\* same assessment with a successful fetch; corsBlocked is TRUE only after a failure.
ContentFailureIsolated ==
    pc = "Complete" =>
        LET failed == fetchOutcome \in FetchFailures
            content == SignalById(result.signals, "content")
        IN  /\ result.corsBlocked = failed
            /\ content.score = 0
            /\ content.status = IF failed THEN "unknown" ELSE "good"
            /\ result.score = ResultWithFetchOk.score
            /\ result.verdict = ResultWithFetchOk.verdict
            /\ Len(result.signals) = Len(ResultWithFetchOk.signals)
            /\ \A i \in 1..Len(result.signals) :
                   result.signals[i].id # "content" => result.signals[i] = ResultWithFetchOk.signals[i]

ContentFailureIsolatedWitness ==
    /\ pc = "Complete"
    /\ fetchOutcome = "timeout"
    /\ result.corsBlocked
    /\ SignalById(result.signals, "content").status = "unknown"
    /\ useApiMocks
    /\ result.score > 30

\* C7: without the external lookups the signals are exactly ssl, url-patterns, content,
\* redirect in this order, and the score is what ssl and url-patterns contribute.
NoExternalSignalsWithoutMocks ==
    (pc = "Complete" /\ ~useApiMocks) =>
        /\ Ids(result.signals) = <<"ssl", "url-patterns", "content", "redirect">>
        /\ Ids(signals) = <<"ssl", "url-patterns", "content", "redirect">>
        /\ result.score = result.signals[1].score + result.signals[2].score

NoExternalSignalsWithoutMocksWitness ==
    /\ pc = "Complete"
    /\ ~useApiMocks
    /\ Len(result.signals) = 4
    /\ result.score = 20

\* C8: https://google.com without external lookups gives ssl good/0, url-patterns good/0,
\* a score of at most 10 and the verdict safe, whether the fetch succeeds or fails.
GoogleIsSafe ==
    (pc = "Complete" /\ url = TEST_URLS[1].url /\ ~useApiMocks) =>
        /\ SignalById(result.signals, "ssl").status = "good"
        /\ SignalById(result.signals, "ssl").score = 0
        /\ SignalById(result.signals, "url-patterns").status = "good"
        /\ SignalById(result.signals, "url-patterns").score = 0
        /\ SignalById(result.signals, "url-patterns").explanation = <<"normal">>
        /\ result.score <= 10
        /\ result.verdict = "safe"

GoogleIsSafeWitness ==
    /\ pc = "Complete"
    /\ url = TEST_URLS[1].url
    /\ ~useApiMocks
    /\ fetchOutcome \in FetchFailures
    /\ result.verdict = "safe"

\* C9: http://192.168.1.1/login gives ssl bad/10, a url-patterns score of at least 5 and a
\* total above 30, so the verdict is suspicious or scam.
IpLoginIsSuspicious ==
    (pc = "Complete" /\ url = TEST_URLS[3].url) =>
        /\ SignalById(result.signals, "ssl").status = "bad"
        /\ SignalById(result.signals, "ssl").score = 10
        /\ SignalById(result.signals, "url-patterns").score >= 5
        /\ result.score > 30
        /\ result.verdict \in {"suspicious", "scam"}

\* C10: https://g00gle-secure-login.tk triggers the suspicious-TLD, the brand and the
\* lookalike conditions on the url-patterns signal and the verdict is scam.
LookalikeIsScam ==
    (pc = "Complete" /\ url = TEST_URLS[4].url) =>
        /\ SignalById(result.signals, "url-patterns").explanation = <<"tld", "brand", "lookalike">>
        /\ result.verdict = "scam"

Severity == "good" :> 0 @@ "warning" :> 1 @@ "bad" :> 2

\* the host has a punycode label or one of the lookalike characters
HostIsFlagged(host) ==
    \/ Includes(host, <<"x","n","-","-">>)
    \/ \E i \in 1..Len(host) : host[i] \in {"0", "1"}

\* C11: when the homograph detector flags the host the URL-Pattern signal gets the score
\* min(old score + 8, 20), the status bad and one more reason; otherwise it is left as it
\* was; the score and the severity of the status never go down.
HomographMutation ==
    pc \in {"Mutated", "Complete"} =>
        LET old == promises["urlPatterns"].value
            new == joined["urlPatterns"]
        IN  /\ HostIsFlagged(domain) =>
                   /\ new.score = Min(old.score + 8, 20)
                   /\ new.status = "bad"
                   /\ Len(new.explanation) = Len(old.explanation) + 1
                   /\ SubSeq(new.explanation, 1, Len(old.explanation)) = old.explanation
            /\ ~HostIsFlagged(domain) => new = old
            /\ new.score >= old.score
            /\ Severity[new.status] >= Severity[old.status]
            /\ pc = "Complete" => signals[2] = new

HomographMutationWitness ==
    /\ pc = "Complete"
    /\ promises["urlPatterns"].value.status = "good"
    /\ promises["urlPatterns"].value.score = 0
    /\ signals[2].status = "bad"
    /\ signals[2].score = 8

PriorityOrder ==
    <<"ssl", "url-patterns", "domain-age", "safe-browsing", "blacklist", "content", "redirect">>

\* C12: the returned signals are the first 6 of ssl, url-patterns, domain-age, safe-browsing,
\* blacklist, content, redirect (the three lookups only when they ran): this order, no id
\* twice, at most 6.
SignalsInPriorityOrder ==
    pc = "Complete" =>
        LET present == SelectSeq(PriorityOrder,
                                 LAMBDA id : useApiMocks \/ id \notin {"domain-age", "safe-browsing", "blacklist"})
            ids == Ids(result.signals)
        IN  /\ Len(result.signals) = Min(Len(present), 6)
            /\ \A i \in 1..Len(result.signals) : ids[i] = present[i]
            /\ Cardinality({ids[i] : i \in 1..Len(result.signals)}) = Len(result.signals)
            /\ Len(result.signals) <= 6

SignalsInPriorityOrderWitness ==
    /\ pc = "Complete"
    /\ useApiMocks
    /\ Len(signals) = 7
    /\ Len(result.signals) = 6
    /\ result.signals[6].id = "content"

TierSuggestions ==
    "safe" :> <<"appears safe", "verify correct URL">> @@
    "likely-safe" :> <<"normal caution", "verify URL", "look for padlock">> @@
    "suspicious" :> <<"be cautious", "verify official site", "password manager", "report fraudulent">> @@
    "scam" :> <<"do NOT enter", "leave immediately", "change passwords", "report to bank",
                "report to Safe Browsing">>

TierLength == "safe" :> 2 @@ "likely-safe" :> 3 @@ "suspicious" :> 4 @@ "scam" :> 5

\* C13: the suggestions are the template list of the verdict (2, 3, 4 or 5 entries) followed
\* by the one non-HTTPS suggestion exactly when the ssl signal is bad.
SuggestionsByTier ==
    pc = "Complete" =>
        LET sslBad == signals[1].id = "ssl" /\ signals[1].status = "bad"
        IN  /\ Len(TierSuggestions[result.verdict]) = TierLength[result.verdict]
            /\ result.suggestions =
                   TierSuggestions[result.verdict] \o (IF sslBad THEN <<"never on non-HTTPS">> ELSE <<>>)
            /\ Len(result.suggestions) = TierLength[result.verdict] + (IF sslBad THEN 1 ELSE 0)

SuggestionsByTierWitness ==
    /\ pc = "Complete"
    /\ result.verdict = "scam"
    /\ signals[1].status = "bad"
    /\ Len(result.suggestions) = 6

\* C14 as stated: ssl and url-patterns are always dispatched and the five of safe-browsing,
\* domain-age, blacklist, content and redirect only when useApiMocks is true.
FiveLookupsOnlyWithFlag ==
    pc # "Idle" =>
        /\ dispatched["ssl"] = 1 /\ dispatched["urlPatterns"] = 1
        /\ \A e \in {"safeBrowsing", "whois", "blacklist", "content", "redirect"} :
               dispatched[e] = IF useApiMocks THEN 1 ELSE 0

\* C14 amended: ssl, url-patterns, content and redirect are always dispatched and the three of
\* safe-browsing, domain-age and blacklist only when useApiMocks is true; with the flag false
\* none of the three runs (its place in Promise.all is an already resolved null).
ThreeLookupsOnlyWithFlag ==
    pc # "Idle" =>
        /\ \A e \in {"ssl", "urlPatterns", "content", "redirect"} : dispatched[e] = 1
        /\ \A e \in {"safeBrowsing", "whois", "blacklist"} :
               /\ dispatched[e] = IF useApiMocks THEN 1 ELSE 0
               /\ ~useApiMocks => promises[e] = Fulfilled(Null)

ThreeLookupsOnlyWithFlagWitness ==
    /\ pc = "Complete"
    /\ ~useApiMocks
    /\ dispatched["content"] = 1
    /\ dispatched["whois"] = 0
    /\ fetchOutcome = "html"

\* C17: for every entry of TEST_URLS the verdict returned for its url is its expectedVerdict,
\* with and without useApiMocks.
TestUrlsMatchExpected ==
    pc = "Complete" =>
        \A i \in 1..Len(TEST_URLS) : url = TEST_URLS[i].url => result.verdict = TEST_URLS[i].expectedVerdict

\* the points of the additive conditions that hold
RECURSIVE SumOfAdditions(_)
SumOfAdditions(steps) ==
    IF steps = <<>> THEN 0
    ELSE (IF Head(steps)[1] > 0 THEN Head(steps)[1] ELSE 0) + SumOfAdditions(Tail(steps))

\* C18: for a host ending in .gov, .edu or .mil the URL-Pattern score is the sum of all the
\* additive conditions minus 5, not below 0: the subtraction comes after every addition.
TrustedTldSubtractedLast ==
    (pc # "Idle" /\ \E tld \in TRUSTED_TLDS : EndsWith(domain, tld)) =>
        promises["urlPatterns"].value.score = Min(Max(0, SumOfAdditions(UrlPatternSteps(url)) - 5), 20)

\* C19: the signal checkUrlPatterns builds has the accumulated score clamped to 20 and the
\* status good iff that score is 0, warning iff it is 1..4, bad iff it is 5 or more.
UrlPatternStatusByScore ==
    pc # "Idle" =>
        LET sg == promises["urlPatterns"].value
        IN  /\ sg.score = Min(AccumulateScore(UrlPatternSteps(url), 0), 20)
            /\ sg.status = "good" <=> sg.score = 0
            /\ sg.status = "warning" <=> sg.score \in 1..4
            /\ sg.status = "bad" <=> sg.score >= 5

UrlPatternStatusByScoreWitness ==
    /\ pc = "Running"
    /\ promises["urlPatterns"].value.score = 5
    /\ promises["urlPatterns"].value.status = "bad"

\* C20: the ssl signal is good/0 iff the normalized URL has the scheme https and bad/10
\* otherwise; an input typed without a scheme is always good/0.
SslByScheme ==
    pc # "Idle" =>
        LET ssl == promises["ssl"].value
            usesHttps == ParseUrl(normalizedUrl).protocol = <<"h","t","t","p","s",":">>
        IN  /\ usesHttps <=> (ssl.status = "good" /\ ssl.score = 0)
            /\ ~usesHttps <=> (ssl.status = "bad" /\ ssl.score = 10)
            /\ ~Includes(url, <<":","/","/">>) => (ssl.status = "good" /\ ssl.score = 0)

SslBySchemeWitness ==
    /\ pc = "Complete"
    /\ ~Includes(url, <<":","/","/">>)
    /\ signals[1].id = "ssl"
    /\ signals[1].status = "good"
    /\ signals[1].score = 0

\* the responses and the input of invocation i
CallKey(i) ==
    <<calls[i].url, calls[i].useApiMocks, calls[i].fetchOutcome, calls[i].ageYears, calls[i].detections>>

UiCallsAreValidated ==
    /\ [][Len(calls') > Len(calls) => isValidUrl(calls'[Len(calls')].url)]_vars
    /\ [][(Len(calls') > Len(calls) /\ (Trim(uiUrl) = <<>> \/ ~isValidUrl(uiUrl)))
              => calls'[Len(calls')].handler = "handleRunDemo"]_vars
    /\ [][(toast' # toast /\ toast' \in {"Please enter a URL", "Invalid URL"})
              => /\ Trim(uiUrl) = <<>> \/ ~isValidUrl(uiUrl)
                 /\ calls' = calls /\ isLoading' = isLoading /\ uiResult' = uiResult]_vars

UiCallsAreValidatedWitness ==
    /\ toast = "Invalid URL"
    /\ ~isValidUrl(uiUrl)
    /\ uiResult # Null
    /\ Len(calls) = 1

HasAgeToken(host) ==
    \/ Includes(host, <<"s","e","c","u","r","e">>)
    \/ Includes(host, <<"l","o","g","i","n">>)
    \/ Includes(host, <<"v","e","r","i","f","y">>)

\* C21: once whoisLookup has settled it has returned a Domain-Age signal whose score and
\* status follow the age (below 0.5 years 15/bad, below 1 year 10/warning, below 2 years
\* 5/warning, otherwise 0/good), never unknown; for a host outside the known-age table
\* the age is below 2 years (score at least 5) when the host contains secure, login or
\* verify, and at least 1 year (score 0 or 5) otherwise.
DomainAgeByAge ==
    (pc # "Idle" /\ useApiMocks /\ promises["whois"].state # "pending") =>
        /\ promises["whois"].state = "fulfilled"
        /\ LET age == promises["whois"].value.ageYears
               sg == promises["whois"].value.signal
           IN  /\ sg.id = "domain-age"
               /\ <<sg.score, sg.status>> =
                      IF 2 * age < RandomDen THEN <<15, "bad">>
                      ELSE IF age < RandomDen THEN <<10, "warning">>
                      ELSE IF age < 2 * RandomDen THEN <<5, "warning">>
                      ELSE <<0, "good">>
               /\ sg.status # "unknown"
               /\ domain \notin DOMAIN mockAges =>
                      IF HasAgeToken(domain)
                      THEN age < 2 * RandomDen /\ sg.score >= 5
                      ELSE age >= RandomDen /\ sg.score \in {0, 5}

Lookups == {"safeBrowsing", "whois", "blacklist", "content", "redirect"}

\* a value destructured from the await is changed after its construction
WrittenAfterJoin == pc \in {"Joined", "Mutated", "Complete"} /\ joined' # joined

\* C22 as stated: the homograph update of the URL-Pattern signal happens after the lexical
\* evaluators have completed and before the results of the lookups are joined.
HomographBeforeLookupJoin ==
    [][WrittenAfterJoin =>
           /\ promises["ssl"].state = "fulfilled"
           /\ promises["urlPatterns"].state = "fulfilled"
           /\ pc = "Running"
           /\ result = Null]_vars

\* C22: the homograph update of the URL-Pattern signal is the step after the await of
\* Promise.all has joined every evaluator (the lexical ones and the lookups) and before
\* the signals are collected and summed; it is the only change of an evaluator's result
\* after its construction, and the settling of a lookup changes neither the URL-Pattern
\* signal nor any other settled result.
HomographAfterJoin ==
    [][/\ \A e \in Evaluators : promises[e].state = "fulfilled" => promises'[e] = promises[e]
       /\ WrittenAfterJoin =>
              /\ pc = "Joined" /\ pc' = "Mutated"
              /\ \A e \in Evaluators : promises[e].state = "fulfilled"
              /\ \A e \in Evaluators \ {"urlPatterns"} : joined'[e] = joined[e]
              /\ joined'["urlPatterns"] = ApplyHomograph(promises["urlPatterns"].value, checkHomographAttack(url))
              /\ signals = <<>> /\ result = Null
       /\ (pc' = "Complete" /\ pc # "Complete") => pc = "Mutated"
       /\ (\E e \in Lookups : promises'[e] # promises[e] /\ pc = "Running") =>
              /\ promises'["urlPatterns"] = promises["urlPatterns"]
              /\ promises'["ssl"] = promises["ssl"]
              /\ joined' = joined]_vars

HomographAfterJoinWitness ==
    /\ pc = "Mutated"
    /\ useApiMocks
    /\ joined["whois"] # Null
    /\ promises["urlPatterns"].value.score = 15
    /\ joined["urlPatterns"].score = 20
    /\ result = Null

\* the number of slashes at the end of s
TrailingSlashCount(s) ==
    Cardinality({k \in 1..Len(s) : \A i \in (Len(s) - k + 1)..Len(s) : s[i] = "/"})

\* the trimmed, lower-cased, whitespace-free, scheme-prefixed input
Prefixed(input) == AddProtocol(RemoveWhitespace(ToLowerCase(Trim(input))))

\* p ends in at least one slash that follows a host or a path, not the scheme
EndsInSlashAfterHost(p) ==
    /\ TrailingSlashCount(p) >= 1
    /\ Len(p) - TrailingSlashCount(p) > (IF StartsWith(p, HttpsPrefix) THEN 8 ELSE 7)

\* C23 as stated: for an input ending in k >= 1 slashes, normalizeUrl removes exactly one
\* of them.
StripsSingleTrailingSlash ==
    (normPc # "start" /\ EndsInSlashAfterHost(Prefixed(normIn))) =>
        /\ normOnce = SubSeq(Prefixed(normIn), 1, Len(Prefixed(normIn)) - 1)
        /\ TrailingSlashCount(normOnce) = TrailingSlashCount(Prefixed(normIn)) - 1

\* C23: for an input ending in k >= 1 slashes, normalizeUrl removes all k of them: the
\* output is the scheme-prefixed input without its trailing run of slashes and ends in
\* no slash.
StripsAllTrailingSlashes ==
    (normPc # "start" /\ EndsInSlashAfterHost(Prefixed(normIn))) =>
        /\ normOnce = SubSeq(Prefixed(normIn), 1,
                             Len(Prefixed(normIn)) - TrailingSlashCount(Prefixed(normIn)))
        /\ TrailingSlashCount(normOnce) = 0

StripsAllTrailingSlashesWitness ==
    /\ normPc = "once"
    /\ normIn = HttpsPrefix \o <<"a", "/", "/">>
    /\ normOnce = HttpsPrefix \o <<"a">>

SumNeverReachesClamp ==
    pc = "Complete" =>
        /\ SumOfScores(signals) <= 95
        /\ result.score = SumOfScores(signals)
        /\ \A i \in 1..Len(signals) : signals[i].id \in {"content", "redirect"} => signals[i].score = 0
        /\ result.verdict = IF SumOfScores(signals) <= 10 THEN "safe"
                            ELSE IF SumOfScores(signals) <= 30 THEN "likely-safe"
                            ELSE IF SumOfScores(signals) <= 60 THEN "suspicious"
                            ELSE "scam"

SumNeverReachesClampWitness ==
    /\ pc = "Complete"
    /\ [i \in 1..Len(signals) |-> signals[i].score] = <<10, 20, 15, 25, 25, 0, 0>>
    /\ result.score = 95
    /\ result.verdict = "scam"

InFlight == {i \in 1..Len(calls) : calls[i].pc = "Running"}

\* C26: when no check is in flight, the displayed result is that of the most recently
\* started check (none when that check failed): a check started earlier never overwrites
\* the result of one started later.
LatestCheckIsDisplayed ==
    (Len(calls) > 0 /\ InFlight = {}) =>
        uiResult = (IF calls[Len(calls)].pc = "Returned" THEN calls[Len(calls)].result ELSE Null)

\* C27: isLoading is true whenever a started check has not yet completed, and false once
\* every started check has completed or failed.
LoadingWhileInFlight == isLoading <=> (InFlight # {})

\* the records of the email that are open
OpenRecords(logs, email) ==
    {i \in 1..Len(logs) : logs[i].email = email /\ logs[i].signOutTime = NoTime}

NewestRecord(logs, email) ==
    logs[CHOOSE i \in 1..Len(logs) :
             /\ logs[i].email = email
             /\ \A k \in 1..Len(logs) : logs[k].email = email => i <= k]

\* supabase.auth.signOut() answers a handleLogout with an error
SignOutFailed == logoutPc = "awaiting" /\ logoutPc' = "idle" /\ toast' = "Sign out failed"

\* C29: when signOut answers with an error the session stays signed in, url and result are
\* unchanged, and the record of the user's current session in the activity log is still
\* open.
FailedLogoutChangesNothing ==
    [][SignOutFailed =>
           /\ session' = session
           /\ currentUser' = currentUser
           /\ uiUrl' = uiUrl
           /\ uiResult' = uiResult
           /\ (/\ currentUser # "none"
               /\ welcomeTimer = "none"
               /\ \E i \in 1..Len(signInLogs) : signInLogs[i].email = currentUser)
                  => NewestRecord(signInLogs', currentUser).signOutTime = NoTime]_vars

\* C30: when a session becomes active the displayed result is null, and while a session is
\* active the result is only ever set by a check that was started in that session.
NoResultFromEndedSession ==
    [][/\ (session = "none" /\ session' # "none") => uiResult' = Null
       /\ (session' # "none" /\ uiResult' # uiResult /\ uiResult' # Null) =>
              \E i \in 1..Len(calls) :
                  /\ calls[i].pc = "Running"
                  /\ calls'[i].pc = "Returned"
                  /\ calls'[i].result = uiResult'
                  /\ calls[i].session = sessionCount]_vars

=============================================================================
